---- MODULE Spec2Model ----
(***************************************************************************)
(* Model of spotify_top_tracks_generator (__main__.py, config.py).         *)
(*                                                                         *)
(* The program is one sequential workflow: main obtains a token, parses    *)
(* the --time-frame option and calls generate_top_playlist for every       *)
(* requested time frame.  The remote service is modelled by `remote` (the  *)
(* user's playlists) and every call issued to it is recorded in `calls`.   *)
(* A remote call may raise; a raised exception that nothing catches ends   *)
(* the run (pc = "raised", err holds the exception).                       *)
(***************************************************************************)
EXTENDS Integers, Sequences, FiniteSets, TLC

\* ------------------------------------------------------------------ bounds
MaxFrames == 2      \* fields of the --time-frame option (Spec)
MaxRemote == 1      \* playlists the user owns when a run of main starts (Spec)
MaxPlaylists == 2   \* playlists the user owns when generate_top_playlist starts (SpecSync)
MaxTracks == 3      \* tracks in one top-tracks response (SpecSync)
MaxPages == 3       \* pages one get_user_playlists call is served (SpecPages)
MaxPageSize == 2    \* page sizes tried for get_user_playlists (SpecPages)

\* --------------------------------------------------------- python values
NoneVal == "<None>"                       \* Python's None, also a missing dict key
Truthy(x) == x \notin {NoneVal, ""}       \* `if x:` / `not x` on None or a string

\* config.py
TOP_SHORT_TERM_PLAYLIST_NAME == "Top Songs - Last Month"
TOP_MEDIUM_TERM_PLAYLIST_NAME == "Top Songs - Last 6 Months"
TOP_LONG_TERM_PLAYLIST_NAME == "Top Songs - All Time"
DEFAULT_TIME_FRAMES == <<"short_term", "medium_term">>

\* default page size of get_user_playlists, default limit of get_top_tracks
DefaultLimit == 50

\* get_top_tracks: valid_time_ranges
valid_time_ranges_Lax == {"short_term", "medium_term", "long_term", ""}
valid_time_ranges == {"short_term", "medium_term", "long_term"}

\* ------------------------------------------------------------ exceptions
NoErr == [type |-> "", msg |-> <<>>, cause |-> ""]
RemoteFault == "remote call failed"
\* what a failing call of the client library raises
RemoteError == [type |-> "SpotifyException", msg |-> <<RemoteFault>>, cause |-> ""]
InvalidTimeRange ==
    [type |-> "ValueError",
     msg |-> <<"Invalid time_range. Please choose from ",
               "short_term", "medium_term", "long_term">>,
     cause |-> ""]
InvalidTimeFrame(tf) ==
    [type |-> "ValueError", msg |-> <<"Invalid time frame: ", tf>>, cause |-> ""]
MissingPlaylistId ==
    [type |-> "ValueError",
     msg |-> <<"Failed to retrieve playlist ID from the Spotify API response.">>,
     cause |-> ""]
\* get_track_ids(None): iterating None
NoneNotIterable ==
    [type |-> "TypeError", msg |-> <<"'NoneType' object is not iterable">>, cause |-> ""]
\* args.time_frame.split(",") with args.time_frame = None
NoneHasNoSplit ==
    [type |-> "AttributeError",
     msg |-> <<"'NoneType' object has no attribute 'split'">>, cause |-> ""]

\* create_playlist: except Exception as e: raise ValueError(f"...{e}") from e
WrapCreateError_Raw(e) == e
WrapCreateError(e) ==
    [type |-> "ValueError",
     msg |-> <<"Failed to create playlist: ">> \o e.msg,
     cause |-> e.type]

\* ------------------------------------------------------- pure functions
\* str.split(","): the option's text is a sequence of tokens, "," the separator
RECURSIVE SplitTokens(_)
SplitTokens(text) ==
    IF \A i \in 1..Len(text) : text[i] # ","
    THEN <<text>>
    ELSE LET k == CHOOSE i \in 1..Len(text) :
                      text[i] = "," /\ \A j \in 1..(i - 1) : text[j] # ","
         IN  <<SubSeq(text, 1, k - 1)>> \o SplitTokens(SubSeq(text, k + 1, Len(text)))

\* the string a piece of tokens spells (a piece holds at most one word here)
PieceString(p) == IF p = <<>> THEN "" ELSE p[1]

Split(text) == [i \in 1..Len(SplitTokens(text)) |-> PieceString(SplitTokens(text)[i])]

\* the text of the option that spells the given fields, joined by ","
RECURSIVE JoinFields(_)
JoinFields(fs) ==
    IF Len(fs) = 0 THEN <<>>
    ELSE LET w == IF fs[1] = "" THEN <<>> ELSE <<fs[1]>>
         IN  IF Len(fs) = 1 THEN w ELSE w \o <<",">> \o JoinFields(Tail(fs))

\* get_track_ids
get_track_ids_Reversed(tracks) ==
    LET kept == SelectSeq(tracks, LAMBDA t : t.id # NoneVal)
    IN  [i \in 1..Len(kept) |-> kept[Len(kept) + 1 - i].id]
RECURSIVE get_track_ids(_)
get_track_ids(tracks) ==
    IF tracks = <<>> THEN <<>>
    ELSE IF Head(tracks).id # NoneVal
         THEN <<Head(tracks).id>> \o get_track_ids(Tail(tracks))
         ELSE get_track_ids(Tail(tracks))

\* get_playlist_id_by_name, line 155: playlist.get("name", "") == name
LowerCase(s) ==
    IF s = TOP_SHORT_TERM_PLAYLIST_NAME THEN "top songs - last month" ELSE s
NameMatches_IgnoreCase(playlist, name) == LowerCase(playlist.name) = LowerCase(name)
NameMatches(playlist, name) == playlist.name = name

\* get_playlist_id_by_name
get_playlist_id_by_name_FirstOnly(playlists, name) ==
    IF playlists # <<>> /\ NameMatches(playlists[1], name) THEN playlists[1].id ELSE NoneVal
RECURSIVE get_playlist_id_by_name_Last(_, _)
get_playlist_id_by_name_Last(playlists, name) ==
    IF playlists = <<>> THEN NoneVal
    ELSE IF NameMatches(playlists[Len(playlists)], name) THEN playlists[Len(playlists)].id
         ELSE get_playlist_id_by_name_Last(SubSeq(playlists, 1, Len(playlists) - 1), name)
RECURSIVE get_playlist_id_by_name(_, _)
get_playlist_id_by_name(playlists, name) ==
    IF playlists = <<>> THEN NoneVal
    ELSE IF NameMatches(Head(playlists), name) THEN Head(playlists).id
         ELSE get_playlist_id_by_name(Tail(playlists), name)

\* get_top_playlist_name; Invalid stands for the ValueError it raises
Invalid == "<invalid>"
get_top_playlist_name(time_frame) ==
    IF time_frame = "short_term" THEN TOP_SHORT_TERM_PLAYLIST_NAME
    ELSE IF time_frame = "medium_term" THEN TOP_MEDIUM_TERM_PLAYLIST_NAME
    ELSE IF time_frame = "long_term" THEN TOP_LONG_TERM_PLAYLIST_NAME
    ELSE Invalid

\* generate_top_playlist: f"Generated: {now.strftime('%Y-%m-%d %H:%M')}"
Clock == {"2024-01-05 09:07"}
Description(now) == <<"Generated: ", now>>

\* get_user_playlists: offset += limit
NextOffset_One(off, lim) == off + 1
NextOffset(off, lim) == off + lim


\* ----------------------------------------------------------------- state
VARIABLES
    pc,                   \* position of the run
    arg,                  \* args.time_frame: [given, text]
    token,                \* what get_spotify_token returned
    logged,               \* messages passed to logging.error
    time_frames,          \* main: the list iterated
    idx,                  \* main: 1-based position of the for loop
    top_track_ids,        \* generate_top_playlist: top_track_ids
    user_playlists,       \* get_user_playlists: user_playlists
    offset,               \* get_user_playlists: offset
    limit,                \* get_user_playlists: limit
    playlist_name,        \* generate_top_playlist: playlist_name
    playlist_description, \* generate_top_playlist: playlist_description
    playlist_id,          \* create_or_replace_playlist: existing_playlist_id / playlist_id
    err,                  \* the exception that ended the run, NoErr if none
    remote,               \* the service: the user's playlists, in listing order
    remote0,              \* the service's playlists when the run started
    calls                 \* every call issued to the service, in order

vars == <<pc, arg, token, logged, time_frames, idx, top_track_ids, user_playlists,
          offset, limit, playlist_name, playlist_description, playlist_id, err,
          remote, remote0, calls>>

\* one call to the service; the fields an operation does not use keep these values
BaseCall ==
    [op |-> "", frame |-> 0, name |-> "", id |-> "", ids |-> <<>>, desc |-> <<>>,
     offset |-> 0, limit |-> 0, items |-> <<>>, ret |-> "", raised |-> FALSE]

\* --------------------------------------------------------- input domains
RECURSIVE SeqsUpTo(_, _)
SeqsUpTo(S, n) ==
    IF n = 0 THEN {<<>>}
    ELSE LET shorter == SeqsUpTo(S, n - 1)
         IN  shorter \cup {Append(s, x) : s \in {t \in shorter : Len(t) = n - 1}, x \in S}

TimeFrameWords == valid_time_ranges \cup {"", "all_time"}
ArgTexts == {JoinFields(fs) : fs \in SeqsUpTo(TimeFrameWords, MaxFrames) \ {<<>>}}
Args == {[given |-> FALSE, text |-> <<>>]} \cup [given : {TRUE}, text : ArgTexts]

Tokens == {NoneVal, "token"}

Playlist(n, i) == [name |-> n, id |-> i, tracks |-> <<>>, desc |-> <<>>]
\* the ids the service hands out to created playlists, in order
FreshIds == <<"N1", "N2", "N3", "N4", "N5", "N6">>
Creates == Cardinality({k \in 1..Len(calls) : calls[k].op = "create" /\ ~calls[k].raised})

Track(i) == [id |-> i]
TopTracks(ids, n) == SeqsUpTo({Track(i) : i \in ids}, n)

\* ------------------------------------------------------------- the service
\* current_user_playlists(offset, limit) of a service holding `pls`
ServerPage(pls, off, lim) ==
    [items |-> SubSeq(pls, off + 1, IF off + lim < Len(pls) THEN off + lim ELSE Len(pls)),
     items_given |-> TRUE,
     next |-> IF off + lim < Len(pls) THEN "next-page-url" ELSE NoneVal]

SetTracks(pls, pid, ids) ==
    [i \in 1..Len(pls) |-> IF pls[i].id = pid THEN [pls[i] EXCEPT !.tracks = ids] ELSE pls[i]]
AddTracks(pls, pid, ids) ==
    [i \in 1..Len(pls) |->
        IF pls[i].id = pid THEN [pls[i] EXCEPT !.tracks = @ \o ids] ELSE pls[i]]
SetDescription(pls, pid, d) ==
    [i \in 1..Len(pls) |-> IF pls[i].id = pid THEN [pls[i] EXCEPT !.desc = d] ELSE pls[i]]

\* ------------------------------------------------------------- the program
Raise(e) == /\ pc' = "raised"
            /\ err' = e

\* main, line 294: for time_frame in time_frames
time_frame_Reversed == time_frames[Len(time_frames) + 1 - idx]
time_frame == time_frames[idx]

\* get_spotify_token (main, line 286)
get_spotify_token ==
    /\ pc = "token"
    /\ \E t \in Tokens :
          /\ token' = t
          /\ logged' = IF ~Truthy(t)
                       THEN Append(logged, "Failed to retrieve Spotify token!")
                       ELSE logged
    /\ pc' = "args"
    /\ UNCHANGED <<arg, time_frames, idx, top_track_ids, user_playlists, offset, limit,
                   playlist_name, playlist_description, playlist_id, err, remote,
                   remote0, calls>>

\* main, lines 289-293: the list of time frames
main_time_frames(a) == Split(a.text)

main_parse ==
    /\ pc = "args"
    /\ IF arg.given
       THEN /\ time_frames' = main_time_frames(arg)
            /\ pc' = "loop"
            /\ err' = err
       ELSE /\ Raise(NoneHasNoSplit)
            /\ time_frames' = DEFAULT_TIME_FRAMES
    /\ idx' = 1
    /\ UNCHANGED <<arg, token, logged, top_track_ids, user_playlists, offset, limit,
                   playlist_name, playlist_description, playlist_id, remote, remote0,
                   calls>>

\* main, line 294: the for loop is exhausted
main_done ==
    /\ pc = "loop"
    /\ idx > Len(time_frames)
    /\ pc' = "done"
    /\ UNCHANGED <<arg, token, logged, time_frames, idx, top_track_ids, user_playlists,
                   offset, limit, playlist_name, playlist_description, playlist_id, err,
                   remote, remote0, calls>>

\* get_top_tracks, lines 59-61: the time range is checked before the call
get_top_tracks_invalid ==
    /\ pc = "loop"
    /\ idx <= Len(time_frames)
    /\ time_frame \notin valid_time_ranges
    /\ Raise(InvalidTimeRange)
    /\ UNCHANGED <<arg, token, logged, time_frames, idx, top_track_ids, user_playlists,
                   offset, limit, playlist_name, playlist_description, playlist_id,
                   remote, remote0, calls>>

\* get_top_tracks, lines 63-66, and get_track_ids, line 242; `responses` are the
\* item lists the service may answer with
get_top_tracks(responses) ==
    /\ pc = "loop"
    /\ idx <= Len(time_frames)
    /\ time_frame \in valid_time_ranges
    /\ LET c == [BaseCall EXCEPT !.op = "top_tracks", !.frame = idx,
                                 !.name = time_frame, !.limit = DefaultLimit]
       IN  \/ /\ calls' = Append(calls, [c EXCEPT !.raised = TRUE])
              /\ Raise(RemoteError)
              /\ UNCHANGED top_track_ids
           \/ /\ calls' = Append(calls, [c EXCEPT !.ret = NoneVal])
              /\ Raise(NoneNotIterable)
              /\ UNCHANGED top_track_ids
           \/ \E items \in responses :
                 /\ calls' = Append(calls, [c EXCEPT !.items = items, !.ret = "items"])
                 /\ top_track_ids' = get_track_ids(items)
                 /\ pc' = "list"
                 /\ err' = err
    /\ user_playlists' = <<>>
    /\ offset' = 0
    /\ limit' = DefaultLimit
    /\ UNCHANGED <<arg, token, logged, time_frames, idx, playlist_name,
                   playlist_description, playlist_id, remote, remote0>>

\* get_user_playlists, lines 130-136: one turn of the loop, served `resp`
ListPage(resp) ==
    /\ pc = "list"
    /\ calls' = Append(calls, [BaseCall EXCEPT !.op = "playlists", !.frame = idx,
                                  !.offset = offset, !.limit = limit,
                                  !.items = IF resp.items_given THEN resp.items ELSE <<>>,
                                  !.ret = resp.next])
    /\ user_playlists' = user_playlists \o (IF resp.items_given THEN resp.items ELSE <<>>)
    /\ IF ~Truthy(resp.next)
       THEN /\ pc' = "name"
            /\ offset' = offset
       ELSE /\ pc' = "list"
            /\ offset' = NextOffset(offset, limit)
    /\ UNCHANGED <<arg, token, logged, time_frames, idx, top_track_ids, limit,
                   playlist_name, playlist_description, playlist_id, err, remote,
                   remote0>>

\* get_user_playlists against the modelled service
get_user_playlists == ListPage(ServerPage(remote, offset, limit))

\* get_user_playlists, line 130 raising
get_user_playlists_fails ==
    /\ pc = "list"
    /\ calls' = Append(calls, [BaseCall EXCEPT !.op = "playlists", !.frame = idx,
                                  !.offset = offset, !.limit = limit, !.raised = TRUE])
    /\ Raise(RemoteError)
    /\ UNCHANGED <<arg, token, logged, time_frames, idx, top_track_ids, user_playlists,
                   offset, limit, playlist_name, playlist_description, playlist_id,
                   remote, remote0>>

\* generate_top_playlist, lines 246-249, and create_or_replace_playlist, line 174
resolve_name ==
    /\ pc = "name"
    /\ LET n == get_top_playlist_name(time_frame)
       IN  IF n = Invalid
           THEN /\ Raise(InvalidTimeFrame(time_frame))
                /\ UNCHANGED <<playlist_name, playlist_description, playlist_id>>
           ELSE /\ playlist_name' = n
                /\ \E now \in Clock : playlist_description' = Description(now)
                /\ playlist_id' = get_playlist_id_by_name(user_playlists, n)
                /\ pc' = "sync"
                /\ err' = err
    /\ UNCHANGED <<arg, token, logged, time_frames, idx, top_track_ids, user_playlists,
                   offset, limit, remote, remote0, calls>>

\* create_or_replace_playlist, lines 176-179
replace_tracks ==
    /\ pc = "sync"
    /\ Truthy(playlist_id)
    /\ LET c == [BaseCall EXCEPT !.op = "replace_tracks", !.frame = idx,
                                 !.id = playlist_id, !.ids = top_track_ids]
       IN  \/ /\ calls' = Append(calls, [c EXCEPT !.raised = TRUE])
              /\ Raise(RemoteError)
              /\ UNCHANGED remote
           \/ /\ calls' = Append(calls, c)
              /\ remote' = SetTracks(remote, playlist_id, top_track_ids)
              /\ pc' = "details"
              /\ err' = err
    /\ UNCHANGED <<arg, token, logged, time_frames, idx, top_track_ids, user_playlists,
                   offset, limit, playlist_name, playlist_description, playlist_id,
                   remote0>>

\* create_or_replace_playlist, line 180
change_details ==
    /\ pc = "details"
    /\ LET c == [BaseCall EXCEPT !.op = "change_details", !.frame = idx,
                                 !.id = playlist_id, !.desc = playlist_description]
       IN  \/ /\ calls' = Append(calls, [c EXCEPT !.raised = TRUE])
              /\ Raise(RemoteError)
              /\ UNCHANGED <<remote, idx>>
           \/ /\ calls' = Append(calls, c)
              /\ remote' = SetDescription(remote, playlist_id, playlist_description)
              /\ pc' = "loop"
              /\ idx' = idx + 1
              /\ err' = err
    /\ UNCHANGED <<arg, token, logged, time_frames, top_track_ids, user_playlists,
                   offset, limit, playlist_name, playlist_description, playlist_id,
                   remote0>>

\* create_or_replace_playlist, line 182: create_playlist, lines 85-96
create_playlist ==
    /\ pc = "sync"
    /\ ~Truthy(playlist_id)
    /\ Creates < Len(FreshIds)
    /\ LET c == [BaseCall EXCEPT !.op = "create", !.frame = idx,
                                 !.name = playlist_name, !.desc = playlist_description]
       IN  \/ /\ calls' = Append(calls, [c EXCEPT !.raised = TRUE])
              /\ Raise(WrapCreateError(RemoteError))
              /\ UNCHANGED <<remote, playlist_id>>
           \/ \E rid \in {NoneVal, "", FreshIds[Creates + 1]} :
              \E new \in {[Playlist(playlist_name, rid) EXCEPT !.desc = playlist_description]} :
                 /\ calls' = Append(calls, [c EXCEPT !.ret = rid])
                 /\ \/ remote' = <<new>> \o remote
                    \/ remote' = Append(remote, new)
                 /\ IF ~Truthy(rid)
                    THEN /\ Raise(WrapCreateError(MissingPlaylistId))
                         /\ UNCHANGED playlist_id
                    ELSE /\ playlist_id' = rid
                         /\ pc' = "add"
                         /\ err' = err
    /\ UNCHANGED <<arg, token, logged, time_frames, idx, top_track_ids, user_playlists,
                   offset, limit, playlist_name, playlist_description, remote0>>

\* create_or_replace_playlist, line 183
add_tracks ==
    /\ pc = "add"
    /\ LET c == [BaseCall EXCEPT !.op = "add_tracks", !.frame = idx,
                                 !.id = playlist_id, !.ids = top_track_ids]
       IN  \/ /\ calls' = Append(calls, [c EXCEPT !.raised = TRUE])
              /\ Raise(RemoteError)
              /\ UNCHANGED <<remote, idx>>
           \/ /\ calls' = Append(calls, c)
              /\ remote' = AddTracks(remote, playlist_id, top_track_ids)
              /\ pc' = "loop"
              /\ idx' = idx + 1
              /\ err' = err
    /\ UNCHANGED <<arg, token, logged, time_frames, top_track_ids, user_playlists,
                   offset, limit, playlist_name, playlist_description, playlist_id,
                   remote0>>

\* ------------------------------------------------------- specifications
Locals ==
    /\ top_track_ids = <<>>
    /\ user_playlists = <<>>
    /\ offset = 0
    /\ limit = DefaultLimit
    /\ playlist_name = ""
    /\ playlist_description = <<>>
    /\ playlist_id = NoneVal
    /\ err = NoErr
    /\ calls = <<>>
    /\ logged = <<>>

\* a run of main
RemoteNames == {TOP_SHORT_TERM_PLAYLIST_NAME, TOP_MEDIUM_TERM_PLAYLIST_NAME}
Init ==
    /\ pc = "token"
    /\ arg \in Args
    /\ token = NoneVal
    /\ time_frames = <<>>
    /\ idx = 1
    /\ remote0 \in SeqsUpTo({Playlist(n, i) : n \in RemoteNames, i \in {NoneVal, "P1"}},
                            MaxRemote)
    /\ remote = remote0
    /\ Locals

Next ==
    \/ get_spotify_token
    \/ main_parse
    \/ main_done
    \/ get_top_tracks_invalid
    \/ get_top_tracks(TopTracks({NoneVal, "a"}, 1))
    \/ get_user_playlists
    \/ get_user_playlists_fails
    \/ resolve_name
    \/ replace_tracks
    \/ change_details
    \/ create_playlist
    \/ add_tracks

Spec == Init /\ [][Next]_vars


\* one call of generate_top_playlist, for any time frame, playlists and top tracks
SyncNames == {TOP_SHORT_TERM_PLAYLIST_NAME, "top songs - last month"}
InitSync ==
    /\ pc = "loop"
    /\ \E tf \in TimeFrameWords :
          /\ arg = [given |-> TRUE, text |-> JoinFields(<<tf>>)]
          /\ time_frames = <<tf>>
    /\ token = "token"
    /\ idx = 1
    /\ remote0 \in SeqsUpTo({Playlist(n, i) : n \in SyncNames, i \in {NoneVal, "P1", "P2"}},
                            MaxPlaylists)
    /\ remote = remote0
    /\ Locals

NextSync ==
    \/ main_done
    \/ get_top_tracks_invalid
    \/ get_top_tracks(TopTracks({NoneVal, "a", "b"}, MaxTracks))
    \/ get_user_playlists
    \/ get_user_playlists_fails
    \/ resolve_name
    \/ replace_tracks
    \/ change_details
    \/ create_playlist
    \/ add_tracks

SpecSync == InitSync /\ [][NextSync]_vars

\* one call of get_user_playlists, served any pages
PagePlaylists == {Playlist(TOP_SHORT_TERM_PLAYLIST_NAME, "P1"),
                  Playlist(TOP_MEDIUM_TERM_PLAYLIST_NAME, "P2")}
PageResponses(lim) ==
    {r \in [items : SeqsUpTo(PagePlaylists, lim), items_given : BOOLEAN,
            next : {NoneVal, "", "next-page-url"}] :
        ~r.items_given => r.items = <<>>}

InitPages ==
    /\ pc = "list"
    /\ arg = [given |-> TRUE, text |-> <<"short_term">>]
    /\ time_frames = <<"short_term">>
    /\ token = "token"
    /\ idx = 1
    /\ remote0 = <<>>
    /\ remote = remote0
    /\ top_track_ids = <<>>
    /\ user_playlists = <<>>
    /\ offset = 0
    /\ limit \in 1..MaxPageSize
    /\ playlist_name = ""
    /\ playlist_description = <<>>
    /\ playlist_id = NoneVal
    /\ err = NoErr
    /\ calls = <<>>
    /\ logged = <<>>

\* the service answers one page request; it reports a next page at most
\* MaxPages - 1 times
get_user_playlists_served ==
    \E resp \in PageResponses(limit) :
        /\ Truthy(resp.next) => Len(calls) + 1 < MaxPages
        /\ ListPage(resp)

NextPages ==
    \/ get_user_playlists_served
    \/ get_user_playlists_fails

SpecPages == InitPages /\ [][NextPages]_vars


\* ------------------------------------------------------------------ claims
MutationOps == {"create", "replace_tracks", "add_tracks", "change_details"}
Last(q) == q[Len(q)]
\* the calls issued while time frame f was processed
CallsOf(f) == SelectSeq(calls, LAMBDA c : c.frame = f)
MutationsOf(f) == SelectSeq(calls, LAMBDA c : c.frame = f /\ c.op \in MutationOps)
\* the playlist name the specification gives each time frame
NameFor(tf) ==
    CASE tf = "short_term" -> "Top Songs - Last Month"
      [] tf = "medium_term" -> "Top Songs - Last 6 Months"
      [] tf = "long_term" -> "Top Songs - All Time"
      [] OTHER -> ""
\* time frame f has been processed to its end
Completed(f) == idx > f
NoCallRaised == \A k \in 1..Len(calls) : ~calls[k].raised

\* C1: in every run where get_spotify_token obtained no token (None or empty),
\* the error is logged and no call is ever issued to the service.
C1_NoTokenNoCalls ==
    (pc # "token" /\ token \in {NoneVal, ""}) =>
        /\ logged # <<>>
        /\ calls = <<>>

\* C2: when --time-frame is omitted, main processes short_term and then
\* medium_term and nothing else, and ends normally when no remote call fails.
C2_DefaultTimeFrames ==
    (~arg.given /\ pc \in {"done", "raised"} /\ NoCallRaised /\ err.type # "TypeError"
        /\ err.cause = "") =>
        /\ pc = "done"
        /\ LET fetches == SelectSeq(calls, LAMBDA c : c.op = "top_tracks")
           IN  [k \in 1..Len(fetches) |-> fetches[k].name] = <<"short_term", "medium_term">>

\* C3: a time frame outside {short_term, medium_term, long_term} makes its
\* processing fail with the invalid-argument ValueError of get_top_tracks, and no
\* call at all is issued to the service for that time frame.
C3_InvalidTimeFrameNoCalls ==
    \A i \in 1..Len(time_frames) :
        time_frames[i] \notin {"short_term", "medium_term", "long_term"} =>
            /\ CallsOf(i) = <<>>
            /\ idx <= i
            /\ (idx = i /\ pc # "loop") =>
                  /\ pc = "raised"
                  /\ err.type = "ValueError"
                  /\ err.msg = <<"Invalid time_range. Please choose from ",
                                 "short_term", "medium_term", "long_term">>

C3_Witness ==
    /\ pc = "raised"
    /\ idx = 2
    /\ time_frames[2] = "all_time"
    /\ err.type = "ValueError"
    /\ Len(CallsOf(1)) >= 3
    /\ CallsOf(2) = <<>>

\* the playlists supplied to create_or_replace_playlist that carry the target name
Resolved == pc \in {"sync", "add", "details"} \/ MutationsOf(1) # <<>> \/ Completed(1)
MatchAt == {i \in 1..Len(user_playlists) : user_playlists[i].name = playlist_name}
FirstMatch == user_playlists[CHOOSE i \in MatchAt : \A j \in MatchAt : i <= j]

\* C4: with no playlist of the target name in the supplied list,
\* create_or_replace_playlist issues exactly one create call (that name and
\* description) followed by exactly one add-tracks call on the id the create
\* returned, and never a replace-tracks or description-update call; a failing call
\* cuts the sequence short.
C4_NoMatchCreatesThenAdds ==
    (Resolved /\ MatchAt = {}) =>
        LET m == MutationsOf(1)
        IN  /\ Len(m) <= 2
            /\ Len(m) >= 1 =>
                  /\ m[1].op = "create"
                  /\ m[1].name = playlist_name
                  /\ m[1].name = NameFor(time_frames[1])
                  /\ m[1].desc = playlist_description
            /\ Len(m) = 2 =>
                  /\ ~m[1].raised
                  /\ m[2].op = "add_tracks"
                  /\ m[2].id = m[1].ret
                  /\ m[2].ids = top_track_ids
            /\ Completed(1) => (Len(m) = 2 /\ ~m[2].raised)
            /\ (pc = "raised" /\ Len(m) = 2) => m[2].raised
            /\ (pc = "raised" /\ Len(m) = 1) => (m[1].raised \/ m[1].ret \in {NoneVal, ""})

C4_Witness ==
    /\ pc = "done"
    /\ MatchAt = {}
    /\ Len(user_playlists) = 2
    /\ user_playlists[1].name = "top songs - last month"
    /\ Len(MutationsOf(1)) = 2
    /\ MutationsOf(1)[2].ids = <<"a", "b">>

\* C5 as claimed: with at least one playlist of the target name in the supplied
\* list, exactly one replace-tracks and then one description-update call are
\* issued, both on the id of the first such playlist, and never a create or
\* add-tracks call.
C5_MatchReplaces ==
    (Resolved /\ MatchAt # {}) =>
        LET m == MutationsOf(1)
        IN  /\ Len(m) <= 2
            /\ Len(m) >= 1 =>
                  /\ m[1].op = "replace_tracks"
                  /\ m[1].id = FirstMatch.id
                  /\ m[1].ids = top_track_ids
            /\ Len(m) = 2 =>
                  /\ ~m[1].raised
                  /\ m[2].op = "change_details"
                  /\ m[2].id = FirstMatch.id
                  /\ m[2].desc = playlist_description
            /\ Completed(1) => (Len(m) = 2 /\ ~m[2].raised)

\* C5 amended: the same, provided the first playlist of the target name has a
\* non-empty id; when its id is missing or empty the create path is taken.
C5_MatchWithIdReplaces ==
    /\ (MatchAt # {} /\ FirstMatch.id \notin {NoneVal, ""}) => C5_MatchReplaces
    /\ (Resolved /\ MatchAt # {} /\ FirstMatch.id \in {NoneVal, ""}) =>
          \A k \in 1..Len(MutationsOf(1)) : MutationsOf(1)[k].op \in {"create", "add_tracks"}

C5_Witness ==
    /\ pc = "done"
    /\ Cardinality(MatchAt) = 2
    /\ user_playlists[1].id = "P2"
    /\ user_playlists[2].id = "P1"
    /\ Len(MutationsOf(1)) = 2
    /\ MutationsOf(1)[1].op = "replace_tracks"
    /\ MutationsOf(1)[1].id = "P2"

\* the items of the page calls cs, one page after the other
RECURSIVE ConcatItems(_)
ConcatItems(cs) ==
    IF cs = <<>> THEN <<>> ELSE ConcatItems(SubSeq(cs, 1, Len(cs) - 1)) \o Last(cs).items
HasNext(c) == ~c.raised /\ c.ret # NoneVal /\ c.ret # ""

\* C6: get_user_playlists with page size L requests offsets 0, L, 2L, ...; every
\* page but the last requested reported a next page, the last one reported none,
\* and the result is the items of exactly the requested pages in request order.
C6_Pagination ==
    /\ \A k \in 1..Len(calls) :
          /\ calls[k].op = "playlists"
          /\ calls[k].limit = limit
          /\ calls[k].offset = (k - 1) * limit
          /\ k < Len(calls) => HasNext(calls[k])
    /\ user_playlists = ConcatItems(SelectSeq(calls, LAMBDA c : ~c.raised))
    /\ pc = "list" => \A k \in 1..Len(calls) : HasNext(calls[k])
    /\ pc = "name" => (calls # <<>> /\ ~Last(calls).raised /\ ~HasNext(Last(calls)))
    /\ pc = "raised" => (calls # <<>> /\ Last(calls).raised)
    /\ pc \in {"list", "name", "raised"}

C6_Witness ==
    /\ pc = "name"
    /\ limit = 2
    /\ Len(calls) = 3
    /\ Len(calls[1].items) = 2
    /\ Len(calls[3].items) = 1
    /\ Len(user_playlists) >= 4

\* C7 as claimed: a create, replace-tracks, add-tracks or description-update call
\* that raises reaches the caller wrapped in an error whose message names the
\* failed operation, never as the raw remote error.
C7_EveryMutationErrorWrapped ==
    (pc = "raised" /\ calls # <<>> /\ Last(calls).raised /\ Last(calls).op \in MutationOps) =>
        /\ err # [type |-> "SpotifyException", msg |-> <<"remote call failed">>, cause |-> ""]
        /\ err.type = "ValueError"
        /\ err.cause = "SpotifyException"
        /\ Len(err.msg) = 2
        /\ err.msg[2] = "remote call failed"

\* C7 amended: a create call that raises is wrapped in a ValueError "Failed to
\* create playlist: <cause>" and re-raised; a replace-tracks, add-tracks or
\* description-update call that raises is not wrapped, the raw remote error
\* reaches the caller.
C7_OnlyCreateErrorWrapped ==
    (pc = "raised" /\ calls # <<>> /\ Last(calls).op \in MutationOps) =>
        /\ (Last(calls).raised /\ Last(calls).op = "create") =>
              err = [type |-> "ValueError",
                     msg |-> <<"Failed to create playlist: ", "remote call failed">>,
                     cause |-> "SpotifyException"]
        /\ (Last(calls).raised /\ Last(calls).op # "create") =>
              err = [type |-> "SpotifyException", msg |-> <<"remote call failed">>,
                     cause |-> ""]
        /\ ~Last(calls).raised =>
              /\ Last(calls).op = "create"
              /\ Last(calls).ret \in {NoneVal, ""}
              /\ err.type = "ValueError"
              /\ err.msg[1] = "Failed to create playlist: "

C7_Witness ==
    /\ pc = "raised"
    /\ calls # <<>>
    /\ Last(calls).op = "create"
    /\ Last(calls).raised
    /\ err.type = "ValueError"
    /\ err.cause = "SpotifyException"

\* C8: the time frames are processed in the given order, one at a time; when the
\* processing of one fails the run ends, no call is issued for a later time frame,
\* and what the earlier time frames changed on the service stays.
C8_InOrderAbortOnFirstError ==
    /\ \A k \in 1..Len(calls) :
          /\ calls[k].frame \in 1..Len(time_frames)
          /\ calls[k].frame <= idx
          /\ k > 1 => calls[k - 1].frame <= calls[k].frame
          /\ calls[k].op = "top_tracks" => calls[k].name = time_frames[calls[k].frame]
          /\ calls[k].op = "create" => calls[k].name = NameFor(time_frames[calls[k].frame])
          /\ calls[k].raised => (k = Len(calls) /\ pc = "raised")
    /\ \A f \in 1..Len(time_frames) :
          Completed(f) =>
              /\ Len(MutationsOf(f)) = 2
              /\ Len(SelectSeq(CallsOf(f), LAMBDA c : c.op = "top_tracks")) = 1
              /\ \A k \in 1..Len(CallsOf(f)) : ~CallsOf(f)[k].raised
    /\ pc = "raised" =>
          /\ err # NoErr
          /\ ~ENABLED Next
    /\ pc = "done" => (idx = Len(time_frames) + 1 /\ err = NoErr)
    /\ \A k \in 1..Len(calls) :
          (calls[k].op \in {"replace_tracks", "add_tracks"} /\ ~calls[k].raised
              /\ \A j \in (k + 1)..Len(calls) :
                    ~(calls[j].op \in {"replace_tracks", "add_tracks"} /\ ~calls[j].raised
                        /\ calls[j].id = calls[k].id)) =>
             \E i \in 1..Len(remote) :
                 /\ remote[i].id = calls[k].id
                 /\ remote[i].tracks = calls[k].ids

C8_Witness ==
    /\ pc = "raised"
    /\ idx = 2
    /\ time_frames = <<"medium_term", "short_term">>
    /\ Last(calls).op = "change_details"
    /\ Last(calls).raised
    /\ MutationsOf(1)[2].op = "add_tracks"
    /\ \E i \in 1..Len(remote) :
          remote[i].name = "Top Songs - Last 6 Months" /\ remote[i].tracks = <<"a">>

\* the ids of the tracks that have one, in the order of the tracks
KeptAt(items) == {i \in 1..Len(items) : items[i].id # NoneVal}
IsKeptIds(ids, items) ==
    /\ Len(ids) = Cardinality(KeptAt(items))
    /\ \A k \in 1..Len(ids) :
          \E i \in KeptAt(items) :
              /\ Cardinality({j \in KeptAt(items) : j <= i}) = k
              /\ ids[k] = items[i].id

\* C9: the ids passed to the replace-tracks or add-tracks call are the ids of the
\* fetched tracks that have one, in the order fetched: nothing is sorted,
\* de-duplicated or truncated, and an all-valid list of N tracks gives N ids.
C9_TrackIdsPreserved ==
    \A k \in 1..Len(calls) :
        calls[k].op \in {"replace_tracks", "add_tracks"} =>
            LET fetch == SelectSeq(CallsOf(calls[k].frame), LAMBDA c : c.op = "top_tracks")
            IN  /\ Len(fetch) = 1
                /\ time_frames[calls[k].frame] \in {"short_term", "medium_term", "long_term"}
                /\ IsKeptIds(calls[k].ids, fetch[1].items)
                /\ KeptAt(fetch[1].items) = 1..Len(fetch[1].items) =>
                      calls[k].ids = [i \in 1..Len(fetch[1].items) |-> fetch[1].items[i].id]

C9_Witness ==
    /\ pc = "done"
    /\ calls[1].items = <<[id |-> "b"], [id |-> NoneVal], [id |-> "b"]>>
    /\ Last(calls).op = "change_details"
    /\ MutationsOf(1)[1].ids = <<"b", "b">>

CreatesNamed(n) ==
    Cardinality({k \in 1..Len(calls) : calls[k].op = "create" /\ calls[k].name = n})
Named(pls, n) == {i \in 1..Len(pls) : pls[i].name = n}
GeneratedNames ==
    {"Top Songs - Last Month", "Top Songs - Last 6 Months", "Top Songs - All Time"}

\* C10 as claimed: within one run, at most one playlist is created per playlist
\* name: a second request for the same time frame issues no create call.
C10_AtMostOneCreatePerName ==
    \A n \in GeneratedNames : CreatesNamed(n) <= 1

\* C10 amended: the same, for every name that no listed playlist with a missing
\* or empty id carries when the run starts; for such a name the program never
\* brings the number of remote playlists of that name above one.
C10_AtMostOneCreatePerNameWithIds ==
    \A n \in GeneratedNames :
        (\A i \in Named(remote0, n) : remote0[i].id \notin {NoneVal, ""}) =>
            /\ CreatesNamed(n) <= 1
            /\ Cardinality(Named(remote, n)) <= IF Named(remote0, n) = {} THEN 1
                                                 ELSE Cardinality(Named(remote0, n))

C10_Witness ==
    /\ pc = "done"
    /\ time_frames = <<"short_term", "short_term">>
    /\ Named(remote0, "Top Songs - Last Month") = {}
    /\ MutationsOf(1)[1].op = "create"
    /\ MutationsOf(2)[1].op = "replace_tracks"
    /\ MutationsOf(2)[1].id = MutationsOf(1)[1].ret

====
